---------------------------- MODULE Spec2Model ----------------------------
(***************************************************************************)
(* A model of the PEG compiler `peg` (berkus/oak, src/libpeg).             *)
(*                                                                         *)
(* Part I   the matchers that back::PegCompiler generates (compiler.rs),   *)
(*          executed on an input as a stack machine: one frame per         *)
(*          generated expression or helper function under evaluation.      *)
(* Part II  one invocation of the macro: front-end parse, semantic         *)
(*          analysis, code generation (lib.rs, compiler.rs).               *)
(* Part III the attributes (middle/attribute/attribute.rs).                *)
(***************************************************************************)
EXTENDS Integers, Sequences, FiniteSets, TLC

VARIABLES
  \* the generated parser (Part I)
  rules,      \* grammar.rules: the rules the matchers were generated from
  input,      \* the `input: &str` of the generated functions, as UTF-8 bytes
  start_pos,  \* the `pos: uint` the rule function was called with
  stack,      \* the matchers being evaluated, innermost last
  ret,        \* the Result<uint, String> the last finished matcher returned
  calls,      \* history: the children the outermost matcher evaluated, in order
  rets,       \* history: what each of these children returned
  \* the host's diagnostic handler (cx.parse_sess.span_diagnostic.handler)
  diagnostics,
  \* one invocation of the macro (Part II)
  tts,               \* the token trees the macro was invoked on
  pc,                \* where `parse` (lib.rs) is
  ast,               \* the local `ast` of `parse`
  result,            \* what `parse` returned
  stages,            \* history: the stages that ran, in order
  rules_types,       \* compile_ast: the capture type of every rule
  top_level_items,   \* PegCompiler.top_level_items
  unique_id,         \* PegCompiler.unique_id
  current_rule_idx,  \* PegCompiler.current_rule_idx
  \* one AttributeInfo<bool> (Part III)
  attr,       \* the AttributeInfo: value, span, default
  got,        \* what the last call of value() returned
  op,         \* the last operation on the attribute
  prev,       \* history: attr and diagnostics before the last operation
  last_set    \* history: the arguments of the last call of set()

matcherVars == <<rules, input, start_pos, stack, ret, calls, rets>>
macroVars ==
  <<tts, pc, ast, result, stages, rules_types, top_level_items, unique_id,
    current_rule_idx>>
attrVars == <<attr, got, op, prev, last_set>>
vars == <<matcherVars, diagnostics, macroVars, attrVars>>

---------------------------------------------------------------------------
(* Bounds of the model.                                                    *)

\* the longest input, in code points
MaxLen == 2
\* the most children of a Sequence or a Choice
MaxArity == 3
\* the most diagnostics the reads of an attribute record
MaxDiagnostics == 2

---------------------------------------------------------------------------
(* Inputs: UTF-8 text.  `a` and `b` are one byte long, `e'` (U+00E9) two.  *)

ByteA == <<97>>
ByteB == <<98>>
EAcute == <<195, 169>>
Alphabet == {ByteA, ByteB, EAcute}
Foo == <<102, 111, 111>>
Foobar == <<102, 111, 111, 98, 97, 114>>

RECURSIVE TextsOfLen(_)
TextsOfLen(n) ==
  IF n = 0 THEN {<<>>}
  ELSE {t \o c : t \in TextsOfLen(n - 1), c \in Alphabet}

Inputs == UNION {TextsOfLen(n) : n \in 0..MaxLen} \cup {Foobar}

\* a continuation byte 10xxxxxx
IsContinuation(b) == b >= 128 /\ b < 192

\* the offsets of `s` at which a code point starts, and its end
Boundaries(s) ==
  {p \in 0..Len(s) : p = Len(s) \/ ~IsContinuation(s[p + 1])}

---------------------------------------------------------------------------
(* Result<uint, String>, and the two ways a matcher gives no Result.       *)

Ok(p) == [kind |-> "Ok", pos |-> p]
Err(text, what) == [kind |-> "Err", msg |-> <<text, what>>]
\* a panic (fail!): a failed bounds check or assertion unwinds the whole call
Panic == [kind |-> "Panic"]
\* no matcher has returned since the last call
NoRet == [kind |-> "None"]


---------------------------------------------------------------------------
(* The primitives the generated code calls.                                *)

\* the byte of `s` at byte offset i
ByteAt(s, i) == s[i + 1]

\* UTF8_CHAR_WIDTH: the length of the code point a byte starts, 0 for a
\* byte that starts none
Utf8Width(b) ==
  IF b < 128 THEN 1
  ELSE IF b >= 192 /\ b < 224 THEN 2
  ELSE IF b >= 224 /\ b < 240 THEN 3
  ELSE IF b >= 240 /\ b < 248 THEN 4
  ELSE 0

\* the payload bits of the first byte of a code point of w bytes
LeadBits(b, w) ==
  IF w = 1 THEN b ELSE IF w = 2 THEN b % 32 ELSE IF w = 3 THEN b % 16 ELSE b % 8

RECURSIVE DecodeFrom(_, _, _, _)
DecodeFrom(s, i, k, val) ==
  IF k = 0 THEN val
  ELSE DecodeFrom(s, i + 1, k - 1, val * 64 + (ByteAt(s, i) % 64))

\* whether input.char_range_at(i) returns: it indexes the bytes (bounds
\* checked) and asserts that a code point starts at i
CharRangeDefined(s, i) ==
  /\ i < Len(s)
  /\ Utf8Width(ByteAt(s, i)) # 0
  /\ i + Utf8Width(ByteAt(s, i)) <= Len(s)

\* input.char_range_at(i): CharRange{ch, next}
char_range_at(s, i) ==
  LET w == Utf8Width(ByteAt(s, i))
  IN [ch |-> DecodeFrom(s, i + 1, w - 1, LeadBits(ByteAt(s, i), w)),
      next |-> i + w]

\* input.slice_from(pos).starts_with(lit)
StartsWithAt(s, pos, lit) ==
  /\ pos + Len(lit) <= Len(s)
  /\ \A k \in 1..Len(lit) : s[pos + k] = lit[k]

\* peg::runtime::match_literal(input, pos, lit_str, lit_len)
match_literal(s, pos, lit_str, lit_len) ==
  IF StartsWithAt(s, pos, lit_str) THEN Ok(pos + lit_len)
  ELSE Err("expected", lit_str)

\* peg::runtime::any_single_char(input, pos)
any_single_char(s, pos) ==
  IF pos >= Len(s) THEN Err("unexpected end of input", <<>>)
  ELSE Ok(char_range_at(s, pos).next)

\* the code points of the alphabet
CharA == char_range_at(ByteA, 0).ch
CharB == char_range_at(ByteB, 0).ch
CharEAcute == char_range_at(EAcute, 0).ch

---------------------------------------------------------------------------
(* front::ast::Expression: the PEG expressions of a rule body.             *)

StrLiteral(lit_str) == [node |-> "StrLiteral", lit_str |-> lit_str]
AnySingleChar == [node |-> "AnySingleChar"]
NonTerminalSymbol(id) == [node |-> "NonTerminalSymbol", id |-> id]
Sequence(seq) == [node |-> "Sequence", seq |-> seq]
Choice(choices) == [node |-> "Choice", choices |-> choices]
ZeroOrMore(e) == [node |-> "ZeroOrMore", e |-> e]
OneOrMore(e) == [node |-> "OneOrMore", e |-> e]
Optional(e) == [node |-> "Optional", e |-> e]
NotPredicate(e) == [node |-> "NotPredicate", e |-> e]
AndPredicate(e) == [node |-> "AndPredicate", e |-> e]
\* CharacterClassExpr{intervals}, each interval a CharacterInterval{lo, hi}
CharacterClass(intervals) == [node |-> "CharacterClass", intervals |-> intervals]
CharacterInterval(lo, hi) == [lo |-> lo, hi |-> hi]

\* clean_ast::Rule
Rule(name, def) == [name |-> name, def |-> def]

\* the second rule of the grammars the matchers are generated from: B = "b"
RuleB == Rule("B", StrLiteral(ByteB))

\* the rule an identifier names (names are unique after semantic analysis)
RuleNamed(rs, id) == rs[CHOOSE i \in 1..Len(rs) : rs[i].name = id]

Atoms ==
  { StrLiteral(ByteA), StrLiteral(ByteA \o ByteB), StrLiteral(EAcute),
    AnySingleChar, NonTerminalSymbol("B"),
    CharacterClass(<<CharacterInterval(CharA, CharB)>>),
    CharacterClass(<<CharacterInterval(CharB, CharB),
                     CharacterInterval(CharEAcute, CharEAcute)>>) }

Unary(S) ==
  {ZeroOrMore(e) : e \in S} \cup {OneOrMore(e) : e \in S}
    \cup {Optional(e) : e \in S} \cup {NotPredicate(e) : e \in S}
    \cup {AndPredicate(e) : e \in S}

\* the children a Sequence or a Choice of the model is built from
ListChildren ==
  { StrLiteral(ByteA), AnySingleChar,
    CharacterClass(<<CharacterInterval(CharA, CharB)>>),
    Sequence(<<StrLiteral(ByteA), StrLiteral(ByteB)>>),
    NotPredicate(StrLiteral(ByteA)),
    Optional(StrLiteral(ByteB)) }

Lists(S) == UNION {[1..n -> S] : n \in 2..MaxArity}

Composites ==
  {Sequence(l) : l \in Lists(ListChildren)}
    \cup {Choice(l) : l \in Lists(ListChildren)}

\* A = "foo" / "foobar"
FooChoice == Choice(<<StrLiteral(Foo), StrLiteral(Foobar)>>)

\* the children of the repetitions, the option and the predicates of the model
UnaryChildren ==
  Atoms \cup Unary(Atoms) \cup ListChildren
    \cup { Sequence(<<StrLiteral(ByteA), Optional(StrLiteral(ByteB))>>),
           Choice(<<StrLiteral(ByteA), StrLiteral(ByteB)>>),
           Choice(<<StrLiteral(ByteA \o ByteB), NotPredicate(StrLiteral(ByteB))>>) }

\* the rule bodies of the model
Bodies == Atoms \cup Unary(UnaryChildren) \cup Composites \cup {FooChoice}

---------------------------------------------------------------------------
(* The generated matchers.  A frame is one generated expression (or helper *)
(* function) under evaluation: `pos` is the `pos` it was entered with,     *)
(* `npos` the position it has reached (the rebinding `Ok(pos) => ...` of a *)
(* sequence, the `npos` of a star loop) and `idx` the child it waits for   *)
(* (0: it has not started).                                                *)

Frame(e, pos) == [e |-> e, pos |-> pos, npos |-> pos, idx |-> 0]

\* what no step of a generated matcher touches
host == <<diagnostics, macroVars, attrVars>>

Top == stack[Len(stack)]
Pop == SubSeq(stack, 1, Len(stack) - 1)
\* the top frame updated to f, and a frame for child c at position p on it
Call(f, c, p) == [stack EXCEPT ![Len(stack)] = f] \o <<Frame(c, p)>>

\* the top frame is entered and has evaluated nothing yet
Fresh(node) == stack # <<>> /\ ret = NoRet /\ Top.e.node = node
\* the child the top frame waits for has returned
Returned(node) == stack # <<>> /\ ret # NoRet /\ Top.e.node = node

\* the history of the outermost matcher
IsRoot == Len(stack) = 1
LogCall(i, p) ==
  calls' = IF IsRoot THEN Append(calls, [idx |-> i, pos |-> p]) ELSE calls
LogRet == rets' = IF IsRoot THEN Append(rets, ret) ELSE rets

\* compile_str_literal: peg::runtime::match_literal(input, pos, $lit_str, $lit_len)
compile_str_literal ==
  /\ Fresh("StrLiteral")
  /\ ret' = match_literal(input, Top.pos, Top.e.lit_str, Len(Top.e.lit_str))
  /\ stack' = Pop
  /\ UNCHANGED <<host, rules, input, start_pos, calls, rets>>

\* compile_any_single_char: peg::runtime::any_single_char(input, pos)
compile_any_single_char ==
  /\ Fresh("AnySingleChar")
  /\ ret' = any_single_char(input, Top.pos)
  /\ stack' = Pop
  /\ UNCHANGED <<host, rules, input, start_pos, calls, rets>>

\* compile_non_terminal_symbol: Parser::$id(input, pos), the call
call_rule ==
  /\ Fresh("NonTerminalSymbol")
  /\ stack' = Call([Top EXCEPT !.idx = 1], RuleNamed(rules, Top.e.id).def, Top.pos)
  /\ UNCHANGED <<host, rules, input, start_pos, ret, calls, rets>>

\* Parser::$id(input, pos), the value of the call
return_rule ==
  /\ Returned("NonTerminalSymbol")
  /\ stack' = Pop
  /\ UNCHANGED <<host, rules, input, start_pos, ret, calls, rets>>

\* a fold from the wrong end: the k-th evaluated is the k-th from the last
nth_reversed(seq, k) == seq[Len(seq) + 1 - k]

\* map_foldr_expr: the fold nests the compiled children so that the k-th
\* evaluated is the k-th of the list
nth_child(seq, k) == seq[k]

\* the arm `Ok(pos) => { $tail }` of compile_sequence (else `x => x`)
sequence_arm(x) == x.kind = "Ok"

\* an arm that does not rebind `pos`: the tail starts at the entry position
sequence_tail_entry(f, x) == f.pos

\* the `pos` the arm `Ok(pos) => { $tail }` binds for the tail
sequence_tail_pos(f, x) == x.pos

\* compile_sequence: the head of the outermost `match`
sequence_enter ==
  /\ Fresh("Sequence")
  /\ stack' = Call([Top EXCEPT !.idx = 1], nth_child(Top.e.seq, 1), Top.pos)
  /\ LogCall(1, Top.pos)
  /\ UNCHANGED <<host, rules, input, start_pos, ret, rets>>

\* compile_sequence: one `match $head { Ok(pos) => { $tail } x => x }`
sequence_match ==
  /\ Returned("Sequence")
  /\ LogRet
  /\ IF sequence_arm(ret) /\ Top.idx < Len(Top.e.seq)
     THEN /\ stack' = Call([Top EXCEPT !.idx = @ + 1,
                                        !.npos = sequence_tail_pos(Top, ret)],
                           nth_child(Top.e.seq, Top.idx + 1),
                           sequence_tail_pos(Top, ret))
          /\ LogCall(Top.idx + 1, sequence_tail_pos(Top, ret))
          /\ ret' = NoRet
     ELSE /\ stack' = Pop
          /\ UNCHANGED <<ret, calls>>
  /\ UNCHANGED <<host, rules, input, start_pos>>

\* the arms swapped: `Ok(_) => { $tail }`
choice_arm_swapped(x) == x.kind = "Ok"

\* the arm `Err(_) => { $tail }` of compile_choice (else `x => x`)
choice_arm(x) == x.kind = "Err"

\* compile_choice: the head of the outermost `match`
choice_enter ==
  /\ Fresh("Choice")
  /\ stack' = Call([Top EXCEPT !.idx = 1], nth_child(Top.e.choices, 1), Top.pos)
  /\ LogCall(1, Top.pos)
  /\ UNCHANGED <<host, rules, input, start_pos, ret, rets>>

\* compile_choice: one `match $head { Err(_) => { $tail } x => x }`; the
\* tail reads the `pos` of the enclosing function, which no arm rebinds
choice_match ==
  /\ Returned("Choice")
  /\ LogRet
  /\ IF choice_arm(ret) /\ Top.idx < Len(Top.e.choices)
     THEN /\ stack' = Call([Top EXCEPT !.idx = @ + 1],
                           nth_child(Top.e.choices, Top.idx + 1), Top.pos)
          /\ LogCall(Top.idx + 1, Top.pos)
          /\ ret' = NoRet
     ELSE /\ stack' = Pop
          /\ UNCHANGED <<ret, calls>>
  /\ UNCHANGED <<host, rules, input, start_pos>>

\* the condition of the `while` of the star function
star_while(npos) == npos < Len(input)

\* the arm `Ok(pos) => { npos = pos; }` of the star function (else `_ => break`)
star_arm(x) == x.kind = "Ok"

\* the star function from its `while` on, with f the frame of the function:
\* another evaluation of $expr at npos, or `Ok(npos)`
star_loop(f) ==
  IF star_while(f.npos)
  THEN /\ stack' = Call(f, f.e.e, f.npos)
       /\ ret' = NoRet
  ELSE /\ stack' = Pop
       /\ ret' = Ok(f.npos)

\* compile_star: the star function is entered, `let mut npos = pos;`
star_enter ==
  /\ Fresh("ZeroOrMore")
  /\ star_loop([Top EXCEPT !.idx = 1, !.npos = Top.pos])
  /\ UNCHANGED <<host, rules, input, start_pos, calls, rets>>

\* compile_star: the `match $expr` of the loop body, and the loop's next test
star_match ==
  /\ Returned("ZeroOrMore")
  /\ IF star_arm(ret)
     THEN star_loop([Top EXCEPT !.npos = ret.pos])
     ELSE /\ stack' = Pop
          /\ ret' = Ok(Top.npos)
  /\ UNCHANGED <<host, rules, input, start_pos, calls, rets>>

\* compile_one_or_more: the plus function is entered, `match $expr`
plus_enter ==
  /\ Fresh("OneOrMore")
  /\ stack' = Call([Top EXCEPT !.idx = 1], Top.e.e, Top.pos)
  /\ UNCHANGED <<host, rules, input, start_pos, ret, calls, rets>>

\* compile_one_or_more: `Ok(pos) => $star_fn, x => x`, where $star_fn calls
\* the star function compiled from the same $expr; then the value of that call
plus_match ==
  /\ Returned("OneOrMore")
  /\ IF Top.idx = 1 /\ ret.kind = "Ok"
     THEN /\ stack' = Call([Top EXCEPT !.idx = 2, !.npos = ret.pos],
                           ZeroOrMore(Top.e.e), ret.pos)
          /\ ret' = NoRet
     ELSE /\ stack' = Pop
          /\ UNCHANGED ret
  /\ UNCHANGED <<host, rules, input, start_pos, calls, rets>>

\* the predicates and the option evaluate their child at their own `pos`
enter_child(node) ==
  /\ Fresh(node)
  /\ stack' = Call([Top EXCEPT !.idx = 1], Top.e.e, Top.pos)
  /\ LogCall(1, Top.pos)
  /\ UNCHANGED <<host, rules, input, start_pos, ret, rets>>

\* compile_optional: match $expr { Ok(pos) => Ok(pos), _ => Ok(pos) }
optional_result(x, pos) == IF x.kind = "Ok" THEN Ok(x.pos) ELSE Ok(pos)

optional_enter == enter_child("Optional")

optional_match ==
  /\ Returned("Optional")
  /\ LogRet
  /\ ret' = optional_result(ret, Top.pos)
  /\ stack' = Pop
  /\ UNCHANGED <<host, rules, input, start_pos, calls>>

\* compile_not_predicate:
\*   match $expr { Ok(_) => Err(format!(..)), _ => Ok(pos) }
not_predicate_result(x, pos) ==
  IF x.kind = "Ok" THEN Err("An !expr failed.", <<>>) ELSE Ok(pos)

not_predicate_enter == enter_child("NotPredicate")

not_predicate_match ==
  /\ Returned("NotPredicate")
  /\ LogRet
  /\ ret' = not_predicate_result(ret, Top.pos)
  /\ stack' = Pop
  /\ UNCHANGED <<host, rules, input, start_pos, calls>>

\* a predicate that consumes: match $expr { x => x }
and_predicate_consuming(x, pos) == x

\* compile_and_predicate: match $expr { Ok(_) => Ok(pos), x => x }
and_predicate_result(x, pos) == IF x.kind = "Ok" THEN Ok(pos) ELSE x

and_predicate_enter == enter_child("AndPredicate")

and_predicate_match ==
  /\ Returned("AndPredicate")
  /\ LogRet
  /\ ret' = and_predicate_result(ret, Top.pos)
  /\ stack' = Pop
  /\ UNCHANGED <<host, rules, input, start_pos, calls>>

\* compile_character_class: $cond, the fold of the intervals with `||`
class_cond(intervals, current) ==
  \E k \in 1..Len(intervals) :
    current >= intervals[k].lo /\ current <= intervals[k].hi

\* compile_character_class: the body of the class_char function
class_char(intervals, s, pos) ==
  IF ~CharRangeDefined(s, pos) THEN Panic
  ELSE IF class_cond(intervals, char_range_at(s, pos).ch)
       THEN Ok(char_range_at(s, pos).next)
       ELSE Err("It doesn't match the character class.", <<>>)

\* compile_character_class: Parser::$fun_name(input, pos); a panic unwinds
\* every matcher
compile_character_class ==
  /\ Fresh("CharacterClass")
  /\ ret' = class_char(Top.e.intervals, input, Top.pos)
  /\ stack' = IF ret' = Panic THEN <<>> ELSE Pop
  /\ UNCHANGED <<host, rules, input, start_pos, calls, rets>>

---------------------------------------------------------------------------
(* Part II.  The capture types of the rules: compile_ast, type_of_expr.    *)

\* Option<Box<AstRuleType>>: None, or Some of one of the AstRuleType variants
NoneTy == [ty |-> "None"]
Character == [ty |-> "Character"]
RuleTypePlaceholder(id) == [ty |-> "RuleTypePlaceholder", id |-> id]
Vector(t) == [ty |-> "Vector", of |-> t]
Tuple(tys) == [ty |-> "Tuple", tys |-> tys]
OptionalTy(t) == [ty |-> "OptionalTy", of |-> t]
Sum(tys) == [ty |-> "Sum", tys |-> tys]
SumBranch(tys) == [ty |-> "SumBranch", tys |-> tys]

\* flatten_tuple of type_of_choice_expr
flatten_tuple(ty) == IF ty.ty = "Tuple" THEN ty.tys ELSE <<ty>>

\* Iterator::filter_map over Option: the Some values, in order
RECURSIVE FilterSome(_)
FilterSome(tys) ==
  IF tys = <<>> THEN <<>>
  ELSE IF Head(tys) = NoneTy THEN FilterSome(Tail(tys))
       ELSE <<Head(tys)>> \o FilterSome(Tail(tys))

\* type_of_seq_expr, from the types of the children
seq_type(tys) == IF tys = <<>> THEN NoneTy ELSE Tuple(tys)

RECURSIVE type_of_expr(_)
\* type_of_seq_expr
type_of_seq_expr(exprs) ==
  seq_type(FilterSome([k \in 1..Len(exprs) |-> type_of_expr(exprs[k])]))

\* type_of_choice_expr
type_of_choice_expr(exprs) ==
  Sum([k \in 1..Len(exprs) |->
        LET ty == type_of_expr(exprs[k])
        IN SumBranch(IF ty = NoneTy THEN <<>> ELSE flatten_tuple(ty))])

\* type_of_expr
type_of_expr(expr) ==
  CASE expr.node \in {"StrLiteral", "AnySingleChar", "NotPredicate", "AndPredicate"}
         -> NoneTy
    [] expr.node = "NonTerminalSymbol" -> RuleTypePlaceholder(expr.id)
    [] expr.node = "CharacterClass" -> Character
    [] expr.node = "Sequence" -> type_of_seq_expr(expr.seq)
    [] expr.node = "Choice" -> type_of_choice_expr(expr.choices)
    [] expr.node \in {"ZeroOrMore", "OneOrMore"} ->
         LET r == type_of_expr(expr.e) IN IF r = NoneTy THEN NoneTy ELSE Vector(r)
    [] expr.node = "Optional" ->
         LET r == type_of_expr(expr.e) IN IF r = NoneTy THEN NoneTy ELSE OptionalTy(r)

\* type_of_rule
type_of_rule(rule) == type_of_expr(rule.def)

---------------------------------------------------------------------------
(* Part II.  The helper functions compile_expression adds to the item list. *)

\* string_to_lowercase, on the rule names of the model
string_to_lowercase(name) ==
  CASE name = "A" -> "a" [] name = "B" -> "b" [] OTHER -> name

\* the compiler's mutable fields while a rule body is compiled
CompilerState(uid, items) == [unique_id |-> uid, items |-> items]

\* gensym (with gen_uid and current_lc_rule_name), and the push of the
\* function it names: format!("{}_{}_{}", prefix, lc_rule_name, uid)
gensym(prefix, lc_rule_name, st) ==
  CompilerState(st.unique_id + 1,
                Append(st.items, <<prefix, lc_rule_name, st.unique_id>>))

RECURSIVE compile_expression(_, _, _)
\* map_foldr_expr: `.map(compile_expression).rev()` is lazy, so the children
\* are compiled from the last (k = Len(seq)) to the first
RECURSIVE map_foldr_expr(_, _, _, _)
map_foldr_expr(seq, k, lc, st) ==
  IF k = 0 THEN st
  ELSE map_foldr_expr(seq, k - 1, lc, compile_expression(seq[k], lc, st))

\* compile_expression: what compiling `expr` does to the compiler's fields
compile_expression(expr, lc, st) ==
  CASE expr.node \in {"StrLiteral", "AnySingleChar", "NonTerminalSymbol"} -> st
    [] expr.node = "Sequence" -> map_foldr_expr(expr.seq, Len(expr.seq), lc, st)
    [] expr.node = "Choice" ->
         map_foldr_expr(expr.choices, Len(expr.choices), lc, st)
    [] expr.node = "ZeroOrMore" ->
         gensym("star", lc, compile_expression(expr.e, lc, st))
    [] expr.node = "OneOrMore" ->
         gensym("plus", lc, gensym("star", lc, compile_expression(expr.e, lc, st)))
    [] expr.node \in {"Optional", "NotPredicate", "AndPredicate"} ->
         compile_expression(expr.e, lc, st)
    [] expr.node = "CharacterClass" -> gensym("class_char", lc, st)

---------------------------------------------------------------------------
(* Part II.  Semantic analysis (middle::analyse).                          *)

Names(rs) == {rs[i].name : i \in 1..Len(rs)}

\* the identifiers an expression refers to
RECURSIVE NonTerminals(_)
NonTerminals(expr) ==
  CASE expr.node = "NonTerminalSymbol" -> {expr.id}
    [] expr.node = "Sequence" ->
         UNION {NonTerminals(expr.seq[k]) : k \in 1..Len(expr.seq)}
    [] expr.node = "Choice" ->
         UNION {NonTerminals(expr.choices[k]) : k \in 1..Len(expr.choices)}
    [] expr.node \in {"ZeroOrMore", "OneOrMore", "Optional", "NotPredicate",
                      "AndPredicate"} -> NonTerminals(expr.e)
    [] OTHER -> {}

\* concatenation of a sequence of sequences
RECURSIVE Flatten(_)
Flatten(ss) == IF ss = <<>> THEN <<>> ELSE Head(ss) \o Flatten(Tail(ss))

\* normalization: a Sequence directly inside a Sequence, a Choice directly
\* inside a Choice, is folded into the enclosing list
RECURSIVE Normalize(_)
Normalize(expr) ==
  CASE expr.node = "Sequence" ->
         Sequence(Flatten([k \in 1..Len(expr.seq) |->
           LET c == Normalize(expr.seq[k])
           IN IF c.node = "Sequence" THEN c.seq ELSE <<c>>]))
    [] expr.node = "Choice" ->
         Choice(Flatten([k \in 1..Len(expr.choices) |->
           LET c == Normalize(expr.choices[k])
           IN IF c.node = "Choice" THEN c.choices ELSE <<c>>]))
    [] expr.node \in {"ZeroOrMore", "OneOrMore", "Optional", "NotPredicate",
                      "AndPredicate"} -> [expr EXCEPT !.e = Normalize(expr.e)]
    [] OTHER -> expr

Diagnostic(level, msg, what) == [level |-> level, msg |-> msg, what |-> what]

\* the sequence of the elements of a set of integers, in increasing order
RECURSIVE Sorted(_)
Sorted(S) ==
  IF S = {} THEN <<>>
  ELSE LET m == CHOOSE x \in S : \A y \in S : x <= y
       IN <<m>> \o Sorted(S \ {m})

\* the errors of semantic analysis: a rule named like an earlier one, and a
\* reference to a rule the grammar does not have
SemanticErrors(rs) ==
  LET dup == {i \in 1..Len(rs) : \E j \in 1..(i - 1) : rs[j].name = rs[i].name}
      unres == {i \in 1..Len(rs) : ~(NonTerminals(rs[i].def) \subseteq Names(rs))}
  IN [k \in 1..Cardinality(dup) |->
        Diagnostic("error", "duplicate rule", Sorted(dup)[k])]
     \o [k \in 1..Cardinality(unres) |->
        Diagnostic("error", "unresolved reference", Sorted(unres)[k])]

\* clean_ast::Grammar
Grammar(rs, print_generated) ==
  [rules |-> rs, start_rule_idx |-> 0, print_generated |-> print_generated]

Some(x) == [kind |-> "Some", val |-> x]
None == [kind |-> "None"]

\* handler.err_count
ErrCount(ds) == Cardinality({k \in 1..Len(ds) : ds[k].level = "error"})

---------------------------------------------------------------------------
(* Part II.  `parse` (lib.rs) and PegCompiler::compile (compiler.rs).      *)

MacItem(module) == [kind |-> "MacItem", module |-> module]
DummyResult == [kind |-> "DummyResult"]

\* what no step of the macro touches
besideMacro == <<matcherVars, attrVars>>

\* parser.parse_grammar(): the grammar the tokens spell; a syntax error is
\* fatal and ends the invocation
parse_grammar ==
  /\ pc = "parse_grammar"
  /\ stages' = Append(stages, "parse_grammar")
  /\ IF tts.well_formed
     THEN /\ ast' = Grammar(tts.rules, tts.print_generated)
          /\ pc' = "analyse"
          /\ UNCHANGED diagnostics
     ELSE /\ diagnostics' = Append(diagnostics, Diagnostic("fatal", "syntax error", 0))
          /\ pc' = "aborted"
          /\ UNCHANGED ast
  /\ UNCHANGED <<besideMacro, tts, result, rules_types, top_level_items,
                 unique_id, current_rule_idx>>

\* middle::analyse(cx, ast): the clean grammar, or none.  It returns the
\* grammar only if no error was raised; `rejected` stands for an analysis
\* that returns none without an error of the two kinds modelled here
analyse ==
  /\ pc = "analyse"
  /\ stages' = Append(stages, "analyse")
  /\ diagnostics' = diagnostics \o SemanticErrors(ast.rules)
  /\ ast' = IF SemanticErrors(ast.rules) = <<>> /\ ~tts.rejected
            THEN Some([ast EXCEPT !.rules =
                   [i \in 1..Len(ast.rules) |->
                      Rule(ast.rules[i].name, Normalize(ast.rules[i].def))]])
            ELSE None
  /\ pc' = "match"
  /\ UNCHANGED <<besideMacro, tts, result, rules_types, top_level_items,
                 unique_id, current_rule_idx>>

\* the arm `Some(ast) => back::PegCompiler::compile(cx, ast)` of `parse`
some_arm(a) == a.kind = "Some"

\* compile_ast: rules_types, a map from the name of a rule to its type
compile_ast(rs) ==
  [n \in Names(rs) |->
     type_of_rule(rs[CHOOSE i \in 1..Len(rs) :
       rs[i].name = n /\ \A j \in (i + 1)..Len(rs) : rs[j].name # n])]

\* PegCompiler::compile: the compiler is made, compile_peg starts with
\* compile_ast
compile ==
  /\ pc = "match"
  /\ some_arm(ast)
  /\ stages' = Append(stages, "compile")
  /\ top_level_items' = <<>>
  /\ unique_id' = 0
  /\ current_rule_idx' = 0
  /\ rules_types' = compile_ast(ast.val.rules)
  /\ pc' = "compile_rules"
  /\ UNCHANGED <<besideMacro, diagnostics, tts, ast, result>>

\* compile_peg: one turn of `for rule in self.grammar.rules.iter()`
compile_rule ==
  /\ pc = "compile_rules"
  /\ current_rule_idx < Len(ast.val.rules)
  /\ LET rule == ast.val.rules[current_rule_idx + 1]
         st == compile_expression(rule.def, string_to_lowercase(rule.name),
                                  CompilerState(unique_id, top_level_items))
     IN /\ top_level_items' = Append(st.items, <<"fn", rule.name>>)
        /\ unique_id' = st.unique_id
  /\ current_rule_idx' = current_rule_idx + 1
  /\ UNCHANGED <<besideMacro, diagnostics, tts, pc, ast, result, stages,
                 rules_types>>

\* compile_peg after the loop: compile_entry_point, the module, the note of
\* print_generated, MacItem::new(grammar)
compile_module ==
  /\ pc = "compile_rules"
  /\ current_rule_idx = Len(ast.val.rules)
  /\ LET module == [items |-> top_level_items,
                    start_rule |-> ast.val.rules[ast.val.start_rule_idx + 1].name]
     IN /\ result' = MacItem(module)
        /\ diagnostics' =
             IF ast.val.print_generated
             THEN Append(diagnostics, Diagnostic("note", "generated", 0))
             ELSE diagnostics
  /\ pc' = "returned"
  /\ UNCHANGED <<besideMacro, tts, ast, stages, rules_types, top_level_items,
                 unique_id, current_rule_idx>>

\* `parse` without the call of abort_if_errors
abort_never(ds) == FALSE

\* handler.abort_if_errors(): whether it panics (it does on recorded errors)
abort_if_errors(ds) == ErrCount(ds) > 0

\* the arm `None => { ...abort_if_errors(); DummyResult::any(DUMMY_SP) }`
abort ==
  /\ pc = "match"
  /\ ~some_arm(ast)
  /\ IF abort_if_errors(diagnostics)
     THEN /\ diagnostics' =
               Append(diagnostics, Diagnostic("fatal", "aborting due to previous errors", 0))
          /\ pc' = "aborted"
          /\ UNCHANGED result
     ELSE /\ result' = DummyResult
          /\ pc' = "returned"
          /\ UNCHANGED diagnostics
  /\ UNCHANGED <<besideMacro, tts, ast, stages, rules_types, top_level_items,
                 unique_id, current_rule_idx>>

\* the children the lists of the grammars of Part II are built from
TypedChildren ==
  { StrLiteral(ByteA),
    CharacterClass(<<CharacterInterval(CharA, CharB)>>),
    NonTerminalSymbol("B"), NonTerminalSymbol("C"),
    OneOrMore(CharacterClass(<<CharacterInterval(CharA, CharB)>>)),
    Sequence(<<StrLiteral(ByteA), NonTerminalSymbol("B")>>),
    Choice(<<AnySingleChar, NonTerminalSymbol("B")>>) }

\* the bodies of the first rule of the grammars of Part II
MacroBodies ==
  Atoms \cup Unary(Atoms)
    \cup {Sequence(l) : l \in Lists(TypedChildren)}
    \cup {Choice(l) : l \in Lists(TypedChildren)}

\* the token trees the macro is invoked on, as the grammar they spell
TokenTrees ==
  { [rules |-> <<Rule("A", body)>> \o rest, print_generated |-> pg,
     well_formed |-> wf, rejected |-> rj] :
      body \in MacroBodies,
      rest \in {<<>>, <<RuleB>>, <<Rule("A", StrLiteral(ByteB))>>},
      pg \in BOOLEAN, wf \in BOOLEAN, rj \in BOOLEAN }

---------------------------------------------------------------------------
(* Part III.  AttributeInfo<bool> (middle/attribute/attribute.rs).         *)

\* DefaultOrRequired<T>
Default(v) == [kind |-> "Default", val |-> v]
Required(msg) == [kind |-> "Required", msg |-> msg]

AttributeInfo(value, span, default) ==
  [value |-> value, span |-> span, default |-> default]

\* rust::DUMMY_SP, and the spans of the assignments of the model
DUMMY_SP == "DUMMY_SP"
Spans == {"span1", "span2"}

Defaults ==
  {Default(TRUE), Default(FALSE), Required("missing attribute")}

\* bool_attribute
bool_attribute(default) == AttributeInfo(None, DUMMY_SP, default)

\* what no operation on the attribute touches
besideAttr == <<matcherVars, macroVars>>

Before == [attr |-> attr, diagnostics |-> diagnostics]

\* AttributeInfo::set: the fields after set(value, span)
set_fields(a, value, span) == [a EXCEPT !.value = Some(value), !.span = span]

\* AttributeInfo::set
set(value, span) ==
  /\ attr' = set_fields(attr, value, span)
  /\ op' = "set"
  /\ prev' = Before
  /\ last_set' = Some([value |-> value, span |-> span])
  /\ UNCHANGED <<besideAttr, diagnostics, got>>

attr_set == \E value \in BOOLEAN, span \in Spans : set(value, span)

\* a read that prefers the default to the stored value
value_default_first(a) ==
  CASE a.default.kind = "Default" -> Some(a.default.val)
    [] OTHER -> a.value

\* AttributeInfo::value: what the `match (&self.value, &self.default)` returns
value_result(a) ==
  CASE a.value = None /\ a.default.kind = "Required" -> None
    [] a.value = None /\ a.default.kind = "Default" -> Some(a.default.val)
    [] OTHER -> a.value

\* AttributeInfo::value: the diagnostics of its first arm, handler.err(*err)
value_diagnostics(a) ==
  IF a.value = None /\ a.default.kind = "Required"
  THEN <<Diagnostic("error", a.default.msg, 0)>>
  ELSE <<>>

\* AttributeInfo::value (it borrows the attribute immutably)
attr_value ==
  /\ Len(diagnostics) < MaxDiagnostics
  /\ got' = value_result(attr)
  /\ diagnostics' = diagnostics \o value_diagnostics(attr)
  /\ attr' = attr
  /\ op' = "value"
  /\ prev' = Before
  /\ UNCHANGED <<besideAttr, last_set>>

---------------------------------------------------------------------------
(* The specifications.                                                     *)

\* the state of a part that a specification does not run
MatcherIdle ==
  /\ rules = <<>>
  /\ input = <<>>
  /\ start_pos = 0
  /\ stack = <<>>
  /\ ret = NoRet
  /\ calls = <<>>
  /\ rets = <<>>

MacroIdle ==
  /\ tts = None
  /\ pc = "idle"
  /\ ast = None
  /\ result = None
  /\ stages = <<>>
  /\ rules_types = <<>>
  /\ top_level_items = <<>>
  /\ unique_id = 0
  /\ current_rule_idx = 0

AttrIdle ==
  /\ attr = None
  /\ got = None
  /\ op = "new"
  /\ prev = None
  /\ last_set = None

\* compile_peg: `fn $rule_name(input: &str, pos: uint) { $rule_def }`, called
\* on an input at a code point boundary
Init ==
  /\ rules \in {<<Rule("A", body), RuleB>> : body \in Bodies}
  /\ input \in Inputs
  /\ start_pos \in Boundaries(input)
  /\ stack = <<Frame(rules[1].def, start_pos)>>
  /\ ret = NoRet
  /\ calls = <<>>
  /\ rets = <<>>
  /\ diagnostics = <<>>
  /\ MacroIdle
  /\ AttrIdle

Next ==
  \/ compile_str_literal
  \/ compile_any_single_char
  \/ call_rule
  \/ return_rule
  \/ sequence_enter
  \/ sequence_match
  \/ choice_enter
  \/ choice_match
  \/ star_enter
  \/ star_match
  \/ plus_enter
  \/ plus_match
  \/ optional_enter
  \/ optional_match
  \/ not_predicate_enter
  \/ not_predicate_match
  \/ and_predicate_enter
  \/ and_predicate_match
  \/ compile_character_class

\* a rule function of the generated parser, called once
Spec == Init /\ [][Next]_vars

\* the generated parser runs on: no step of it is postponed forever
FairSpec == Spec /\ WF_vars(Next)

\* the rule function has returned, or has panicked
Done == stack = <<>>

\* `expand` (lib.rs): the macro is invoked on a token stream
InitMacro ==
  /\ tts \in TokenTrees
  /\ pc = "parse_grammar"
  /\ ast = None
  /\ result = None
  /\ stages = <<>>
  /\ rules_types = <<>>
  /\ top_level_items = <<>>
  /\ unique_id = 0
  /\ current_rule_idx = 0
  /\ diagnostics = <<>>
  /\ MatcherIdle
  /\ AttrIdle

NextMacro ==
  \/ parse_grammar
  \/ analyse
  \/ compile
  \/ compile_rule
  \/ compile_module
  \/ abort

\* one invocation of the macro
SpecMacro == InitMacro /\ [][NextMacro]_vars

\* an attribute is declared
InitAttr ==
  /\ attr \in {bool_attribute(d) : d \in Defaults}
  /\ got = None
  /\ op = "new"
  /\ prev = None
  /\ last_set = None
  /\ diagnostics = <<>>
  /\ MatcherIdle
  /\ MacroIdle

NextAttr ==
  \/ attr_set
  \/ attr_value

\* an attribute, written and read in any order
SpecAttr == InitAttr /\ [][NextAttr]_vars

---------------------------------------------------------------------------
(* Properties of the generated matchers (under Spec).                      *)

\* the body of the rule under test
Body == rules[1].def

\* the rule function returned a Result (it did not panic)
Returns == Done /\ ret.kind \in {"Ok", "Err"}

\* an iteration of a star loop has succeeded without consuming input
ZeroWidthIteration ==
  /\ stack # <<>>
  /\ Top.e.node = "ZeroOrMore"
  /\ ret.kind = "Ok"
  /\ ret.pos = Top.npos

\* C1: repetition progress.  When the child of `e*` (or of the loop of
\* `e+`) succeeds without consuming input, that iteration ends the loop: the
\* star function returns Ok of the position it has reached (the entry
\* position when no iteration consumed anything) and does not evaluate the
\* child again.
C1_ZeroWidthIterationEndsLoop ==
  [][ZeroWidthIteration => (stack' = Pop /\ ret' = Ok(Top.npos))]_vars

\* C1, as termination: under FairSpec every call of a rule function ends.
StarTerminates == <>Done

\* the scenario of C2: A = "foo" / "foobar" on "foobar" from position 0
FoobarScenario == Body = FooChoice /\ input = Foobar /\ start_pos = 0

\* C2 as stated: in the scenario the match is the one of the second
\* alternative, the result is position 6 (the whole input), and the position
\* the first alternative produced is not the result.
C2_FoobarSecondAlternative ==
  (FoobarScenario /\ Done) =>
    /\ ret = Ok(Len(Foobar))
    /\ Len(calls) = 2
    /\ ret # Ok(Len(Foo))

\* C2 as amended: in the scenario the first alternative "foo" succeeds, so
\* the choice returns its result, position 3, and the second alternative is
\* never evaluated.
C2_FoobarFirstAlternative ==
  (FoobarScenario /\ Done) =>
    /\ ret = Ok(Len(Foo))
    /\ calls = <<[idx |-> 1, pos |-> 0]>>
    /\ rets = <<Ok(Len(Foo))>>

C2_Witness == FoobarScenario /\ Done /\ ret.kind = "Ok"

\* C3: ordered choice.  The children of a Choice are evaluated left to
\* right, every one at the entry position; a child is evaluated only after
\* all the children before it failed; the choice returns what the last
\* evaluated child returned, which is the first success or, when every child
\* failed, the error of the last child.
C3_OrderedChoice ==
  Body.node = "Choice" =>
    /\ Len(calls) <= Len(Body.choices)
    /\ Len(rets) <= Len(calls)
    /\ \A k \in 1..Len(calls) :
         /\ calls[k] = [idx |-> k, pos |-> start_pos]
         /\ \A j \in 1..(k - 1) : rets[j].kind = "Err"
    /\ Returns =>
         /\ Len(rets) = Len(calls)
         /\ ret = rets[Len(rets)]
         /\ ret.kind = "Err" => Len(calls) = Len(Body.choices)

\* a choice whose first child, a sequence, advanced and then failed, whose
\* second child succeeded and whose third child was not evaluated
C3_Witness ==
  /\ Body.node = "Choice"
  /\ Len(Body.choices) = 3
  /\ Body.choices[1] = Sequence(<<StrLiteral(ByteA), StrLiteral(ByteB)>>)
  /\ StartsWithAt(input, start_pos, ByteA)
  /\ Returns
  /\ Len(calls) = 2
  /\ rets[1].kind = "Err"
  /\ ret.kind = "Ok"
  /\ ret.pos > start_pos

\* C4: sequence.  The children of a Sequence are evaluated in order, the
\* first at the entry position and child k+1 at the position child k
\* returned; after a child failed no child is evaluated; the sequence returns
\* what the last evaluated child returned: the position of the last child
\* when all succeeded, else the error of the first child that failed.
C4_Sequence ==
  Body.node = "Sequence" =>
    /\ Len(calls) <= Len(Body.seq)
    /\ Len(rets) <= Len(calls)
    /\ \A k \in 1..Len(calls) :
         /\ calls[k].idx = k
         /\ k = 1 => calls[k].pos = start_pos
         /\ k > 1 => rets[k - 1].kind = "Ok" /\ calls[k].pos = rets[k - 1].pos
    /\ Returns =>
         /\ Len(rets) = Len(calls)
         /\ ret = rets[Len(rets)]
         /\ ret.kind = "Ok" => Len(calls) = Len(Body.seq)

\* a sequence of three children whose second child started where the first
\* one ended, beyond the entry position, and failed
C4_Witness ==
  /\ Body.node = "Sequence"
  /\ Len(Body.seq) = 3
  /\ Returns
  /\ Len(calls) = 2
  /\ calls[2].pos > start_pos
  /\ ret.kind = "Err"

\* C5: predicate non-consumption.  `!e` returns Ok of the entry position
\* exactly when e fails and the error of `!expr` exactly when e succeeds;
\* `&e` returns Ok of the entry position exactly when e succeeds and the
\* error of e otherwise; e is evaluated once, at the entry position.
C5_Predicates ==
  (Body.node \in {"NotPredicate", "AndPredicate"} /\ Returns) =>
    /\ calls = <<[idx |-> 1, pos |-> start_pos]>>
    /\ Len(rets) = 1
    /\ ret.kind = "Ok" => ret.pos = start_pos
    /\ Body.node = "NotPredicate" =>
         /\ ret = Ok(start_pos) <=> rets[1].kind = "Err"
         /\ ret = Err("An !expr failed.", <<>>) <=> rets[1].kind = "Ok"
    /\ Body.node = "AndPredicate" =>
         /\ ret = Ok(start_pos) <=> rets[1].kind = "Ok"
         /\ rets[1].kind = "Err" => ret = rets[1]

\* `&e` succeeded at the entry position although e had advanced
C5_Witness ==
  /\ Body.node = "AndPredicate"
  /\ Returns
  /\ rets[1].kind = "Ok"
  /\ rets[1].pos > start_pos
  /\ ret = Ok(start_pos)

\* the offset of the code point boundary that follows offset p
NextBoundary(s, p) ==
  CHOOSE q \in Boundaries(s) :
    q > p /\ \A r \in Boundaries(s) : r > p => q <= r

\* C6: character class.  At every position p from 0 to the end of the input
\* (the end included) the class matcher returns a value: Ok of the next
\* boundary when a code point exists at p and lies in an interval, and else
\* the error of the character class; it never panics.
C6_ClassReturnsAValue ==
  (Body.node = "CharacterClass" /\ Done) =>
    ret = IF /\ start_pos < Len(input)
             /\ \E k \in 1..Len(Body.intervals) :
                  /\ Body.intervals[k].lo <= char_range_at(input, start_pos).ch
                  /\ char_range_at(input, start_pos).ch <= Body.intervals[k].hi
          THEN Ok(NextBoundary(input, start_pos))
          ELSE Err("It doesn't match the character class.", <<>>)

---------------------------------------------------------------------------
(* Properties of one invocation of the macro (under SpecMacro).            *)

Stages == <<"parse_grammar", "analyse", "compile">>
Ran(stage) == \E k \in 1..Len(stages) : stages[k] = stage

\* `parse` is over: it returned, or it panicked
Over == pc \in {"returned", "aborted"}

C10_SequenceType ==
  Ran("compile") =>
    \A i \in 1..Len(ast.val.rules) :
      LET rule == ast.val.rules[i]
          ts == FilterSome([k \in 1..Len(rule.def.seq) |->
                              type_of_expr(rule.def.seq[k])])
      IN rule.def.node = "Sequence" =>
           rules_types[rule.name] =
             IF ts = <<>> THEN NoneTy
             ELSE IF Len(ts) = 1 THEN ts[1] ELSE Tuple(ts)

\* the body of rule i as the tokens spell it, and as semantic analysis
\* handed it to the compiler (nested same-operator lists folded)
RawBody(i) == tts.rules[i].def
FoldedBody(i) == ast.val.rules[i].def

\* a list directly inside a list of the same operator
RECURSIVE HasNestedList(_)
HasNestedList(expr) ==
  CASE expr.node = "Sequence" ->
         \E k \in 1..Len(expr.seq) :
           expr.seq[k].node = "Sequence" \/ HasNestedList(expr.seq[k])
    [] expr.node = "Choice" ->
         \E k \in 1..Len(expr.choices) :
           expr.choices[k].node = "Choice" \/ HasNestedList(expr.choices[k])
    [] expr.node \in {"ZeroOrMore", "OneOrMore", "Optional", "NotPredicate",
                      "AndPredicate"} -> HasNestedList(expr.e)
    [] OTHER -> FALSE

\* C11: type inference is stable under normalization.  For every rule, the
\* capture type compile_ast infers for the folded body (a Sequence directly
\* inside a Sequence, a Choice directly inside a Choice, folded into one flat
\* list) is the type type_of_expr gives for the body as written.
C11_TypeStableUnderNormalization ==
  Ran("compile") =>
    \A i \in 1..Len(tts.rules) :
      /\ ~HasNestedList(FoldedBody(i))
      /\ rules_types[tts.rules[i].name] = type_of_expr(FoldedBody(i))
      /\ type_of_expr(FoldedBody(i)) = type_of_expr(RawBody(i))

\* C11 where nothing is folded: the two types agree for every rule whose
\* body has no list directly inside a list of the same operator
TypeStableWithoutNesting ==
  Ran("compile") =>
    \A i \in 1..Len(tts.rules) :
      ~HasNestedList(RawBody(i)) =>
        rules_types[tts.rules[i].name] = type_of_expr(RawBody(i))

\* a nested Choice was folded and its type was inferred
NestedChoiceCompiled ==
  /\ Ran("compile")
  /\ RawBody(1).node = "Choice"
  /\ HasNestedList(RawBody(1))

\* the helper functions among the generated items, in the order they were
\* pushed (the other items are the rule functions)
Helpers == SelectSeq(top_level_items, LAMBDA item : Len(item) = 3)

\* the helpers named after the rule `name`
HelpersOf(name) ==
  SelectSeq(Helpers, LAMBDA item : item[2] = string_to_lowercase(name))

\* the occurrences in `expr` of the operators of `nodes`
RECURSIVE Occurrences(_, _)
RECURSIVE OccurrencesIn(_, _, _)
OccurrencesIn(seq, k, nodes) ==
  IF k = 0 THEN 0
  ELSE Occurrences(seq[k], nodes) + OccurrencesIn(seq, k - 1, nodes)

Occurrences(expr, nodes) ==
  (IF expr.node \in nodes THEN 1 ELSE 0)
    + CASE expr.node = "Sequence" -> OccurrencesIn(expr.seq, Len(expr.seq), nodes)
        [] expr.node = "Choice" ->
             OccurrencesIn(expr.choices, Len(expr.choices), nodes)
        [] expr.node \in {"ZeroOrMore", "OneOrMore", "Optional", "NotPredicate",
                          "AndPredicate"} -> Occurrences(expr.e, nodes)
        [] OTHER -> 0

CompositeOperators ==
  {"Sequence", "Choice", "ZeroOrMore", "OneOrMore", "Optional", "NotPredicate",
   "AndPredicate", "CharacterClass"}

\* compile_peg is in or past its loop over the rules
Compiling == pc \in {"compile_rules", "returned"} /\ Ran("compile")

\* the uids of one compile start at 0, strictly increase in the order the
\* helpers were pushed and stay below the counter; no two helpers share a name
UidsFresh ==
  /\ Len(Helpers) > 0 => Helpers[1][3] = 0
  /\ \A j, k \in 1..Len(Helpers) : j < k => Helpers[j][3] < Helpers[k][3]
  /\ \A k \in 1..Len(Helpers) : Helpers[k][3] < unique_id
  /\ \A j, k \in 1..Len(Helpers) : j # k => Helpers[j] # Helpers[k]

\* C12: helper generation.  Every composite operator occurring in a compiled
\* rule body (Sequence, Choice, ZeroOrMore, OneOrMore, Optional, NotPredicate,
\* AndPredicate, CharacterClass) has added one helper function to the item
\* list, named after the lowercase name of the rule; the uids of the helpers
\* start at 0, strictly increase and are never reused, so no two helpers of
\* one compile share a name.
C12_HelperPerComposite ==
  Compiling =>
    /\ \A i \in 1..current_rule_idx :
         Len(HelpersOf(ast.val.rules[i].name)) =
           Occurrences(FoldedBody(i), CompositeOperators)
    /\ UidsFresh

\* C12, the part on the uids alone
UidsMonotonic == Compiling => UidsFresh

\* what the code emits: one helper per ZeroOrMore and per CharacterClass,
\* two (star and plus) per OneOrMore, none for the other operators
HelpersOfTheCode ==
  Compiling =>
    \A i \in 1..current_rule_idx :
      Len(HelpersOf(ast.val.rules[i].name)) =
        Occurrences(FoldedBody(i), {"ZeroOrMore", "CharacterClass"})
          + 2 * Occurrences(FoldedBody(i), {"OneOrMore"})

\* a rule whose body holds a composite operator was compiled
CompositeCompiled ==
  /\ Compiling
  /\ current_rule_idx >= 1
  /\ Occurrences(FoldedBody(1), CompositeOperators) >= 2
  /\ Len(Helpers) >= 2

---------------------------------------------------------------------------
(* Properties of an attribute (under SpecAttr).                            *)

\* C8: attribute read.  value() returns the value of the most recent set;
\* when nothing was set it returns the default of Default(v) and records no
\* diagnostic, and for Required(msg) it records the error msg and returns
\* none; value() leaves the value, the span and the default as they were.
C8_AttributeRead ==
  op = "value" =>
    /\ attr = prev.attr
    /\ last_set # None =>
         /\ got = Some(last_set.val.value)
         /\ diagnostics = prev.diagnostics
    /\ (last_set = None /\ attr.default.kind = "Default") =>
         /\ got = Some(attr.default.val)
         /\ diagnostics = prev.diagnostics
    /\ (last_set = None /\ attr.default.kind = "Required") =>
         /\ got = None
         /\ diagnostics =
              Append(prev.diagnostics, Diagnostic("error", attr.default.msg, 0))

\* an attribute of default true is read after it was set to false
C8_Witness ==
  /\ op = "value"
  /\ attr.default = Default(TRUE)
  /\ last_set # None
  /\ last_set.val.value = FALSE
  /\ got = Some(FALSE)

\* C9: attribute write.  After set(value, span) the attribute holds that
\* value and that span, and the same write again changes nothing; a write at
\* a new span to an attribute that has a value records one warning (and no
\* error).
C9_SetWarnsOnRewrite ==
  op = "set" =>
    /\ attr.value = Some(last_set.val.value)
    /\ attr.span = last_set.val.span
    /\ set_fields(attr, last_set.val.value, last_set.val.span) = attr
    /\ (prev.attr.value # None /\ attr.span # prev.attr.span) =>
         /\ Len(diagnostics) = Len(prev.diagnostics) + 1
         /\ diagnostics[Len(diagnostics)].level = "warning"
=============================================================================
